---- MODULE Spec2Model ----
(***************************************************************************)
(* PR Analyzer (kiakiraki/pr-analyzer): the record normalizer              *)
(* (analyzer.process_pr_data), the monthly aggregator                      *)
(* (analyzer.calculate_monthly_statistics), the acquisition client         *)
(* (fetcher.fetch_pr_data) and the commands fetch, analyze and run of      *)
(* cli.py that call them.                                                  *)
(*                                                                         *)
(* Representation.                                                         *)
(*  - A JSON / Python value that may be None is a sequence of length at    *)
(*    most one: None is << >>, a present value v is << v >>.               *)
(*  - A Python dict is a function on its keys, so  k \in DOMAIN d  is      *)
(*    Python's  k in d  and a missing key is a key outside the domain.     *)
(*  - A timestamp string is a record of the fields an ISO-8601 text        *)
(*    "YYYY-MM-DDThh:mm:ss<off>" spells (field values may be out of range),*)
(*    or the empty text (fmt "empty").                                     *)
(*  - A float is the exact rational it approximates, [n, d] in lowest      *)
(*    terms; rounding of IEEE doubles is not modelled.                     *)
(*  - Instants are seconds counted from 2024-01-01T00:00:00Z, so that all  *)
(*    arithmetic stays inside 32-bit integers.                             *)
(***************************************************************************)
EXTENDS Integers, Sequences, FiniteSets, TLC

None == << >>
Some(v) == << v >>
IsNone(o) == o = << >>
Get(o) == o[1]

(***************************************************************************)
(* Exact rationals                                                         *)
(***************************************************************************)
Abs(x) == IF x < 0 THEN -x ELSE x

RECURSIVE Gcd(_, _)
Gcd(a, b) == IF b = 0 THEN a ELSE Gcd(b, a % b)

\* n / d in lowest terms with a positive denominator (d # 0)
Rat(n, d) ==
    LET g == Gcd(Abs(n), Abs(d))
        s == IF d < 0 THEN -1 ELSE 1
    IN  [n |-> s * (n \div g), d |-> s * (d \div g)]

RatDiv(r, k) ==
    LET g == Gcd(Abs(r.n), Abs(k))
        s == IF k < 0 THEN -1 ELSE 1
    IN  [n |-> s * (r.n \div g), d |-> r.d * (Abs(k) \div g)]

RatAdd(a, b) ==
    LET g == Gcd(a.d, b.d)
        l == (a.d \div g) * b.d
    IN  Rat(a.n * (l \div a.d) + b.n * (l \div b.d), l)

(***************************************************************************)
(* The proleptic Gregorian calendar, as Python's datetime computes it      *)
(***************************************************************************)
IsLeap(y) == y % 4 = 0 /\ (y % 100 # 0 \/ y % 400 = 0)

DaysInMonth(y, m) ==
    CASE m \in {1, 3, 5, 7, 8, 10, 12} -> 31
      [] m \in {4, 6, 9, 11} -> 30
      [] m = 2 -> IF IsLeap(y) THEN 29 ELSE 28

\* days before January 1st of year y
DaysBeforeYear(y) ==
    365 * (y - 1) + ((y - 1) \div 4) - ((y - 1) \div 100) + ((y - 1) \div 400)

RECURSIVE DaysBeforeMonth(_, _)
DaysBeforeMonth(y, m) ==
    IF m = 1 THEN 0 ELSE DaysBeforeMonth(y, m - 1) + DaysInMonth(y, m - 1)

\* ordinal of a date, January 1st of year 1 being day 1
Ymd2Ord(y, m, d) == DaysBeforeYear(y) + DaysBeforeMonth(y, m) + d

EpochOrd == Ymd2Ord(2024, 1, 1)

\* the years the model's timestamps can fall in
Years == 2023 .. 2025

Ord2Ymd(ord) ==
    LET y == CHOOSE yy \in Years :
                 DaysBeforeYear(yy) < ord /\ ord <= DaysBeforeYear(yy + 1)
        r == ord - DaysBeforeYear(y)
        m == CHOOSE mm \in 1 .. 12 :
                 DaysBeforeMonth(y, mm) < r
                 /\ r <= DaysBeforeMonth(y, mm) + DaysInMonth(y, mm)
    IN  [year |-> y, month |-> m, day |-> r - DaysBeforeMonth(y, m)]

(***************************************************************************)
(* Aware datetimes: civil fields plus a UTC offset in hours                *)
(***************************************************************************)
\* seconds from the epoch to the instant the aware datetime denotes
Instant(dt) ==
    (Ymd2Ord(dt.year, dt.month, dt.day) - EpochOrd) * 86400
    + dt.hour * 3600 + dt.minute * 60 + dt.second - dt.utcoffset * 3600

\* the aware datetime showing instant t in the zone of offset tz hours
FromInstant(t, tz) ==
    LET loc  == t + tz * 3600
        days == IF loc >= 0 THEN loc \div 86400 ELSE -((-loc + 86399) \div 86400)
        sod  == loc - days * 86400
        ymd  == Ord2Ymd(EpochOrd + days)
    IN  [year |-> ymd.year, month |-> ymd.month, day |-> ymd.day,
         hour |-> sod \div 3600, minute |-> (sod % 3600) \div 60,
         second |-> sod % 60, utcoffset |-> tz]

\* datetime.astimezone(tz): same instant, fields of the target zone
AsTimezone(dt, tz) == FromInstant(Instant(dt), tz)

(***************************************************************************)
(* Timestamp texts                                                         *)
(***************************************************************************)
Ts(y, m, d, h, mi, s, off) ==
    [fmt |-> "iso", year |-> y, month |-> m, day |-> d,
     hour |-> h, minute |-> mi, second |-> s, off |-> off]

EmptyStr == [fmt |-> "empty"]

\* the UTC offsets a timestamp text can spell, in hours
OffsetTexts == {"+00:00", "+09:00", "-05:00"}

OffsetHours(off) ==
    CASE off = "+00:00" -> 0
      [] off = "+09:00" -> 9
      [] off = "-05:00" -> -5

OffsetText(h) ==
    CASE h = 0 -> "+00:00"
      [] h = 9 -> "+09:00"
      [] h = -5 -> "-05:00"

\* str.replace("Z", "+00:00")
ReplaceZ(s) ==
    IF s.fmt = "iso" /\ s.off = "Z" THEN [s EXCEPT !.off = "+00:00"] ELSE s

\* datetime.fromisoformat: Some(aware datetime), or None for ValueError.
\* The "Z" designator itself is rejected, as by Python before 3.11, which is
\* why the caller replaces it first.
FromIsoformat(s) ==
    IF /\ s.fmt = "iso"
       /\ s.off \in OffsetTexts
       /\ s.year \in Years
       /\ s.month \in 1 .. 12
       /\ s.day \in 1 .. DaysInMonth(s.year, s.month)
       /\ s.hour \in 0 .. 23
       /\ s.minute \in 0 .. 59
       /\ s.second \in 0 .. 59
    THEN Some([year |-> s.year, month |-> s.month, day |-> s.day,
               hour |-> s.hour, minute |-> s.minute, second |-> s.second,
               utcoffset |-> OffsetHours(s.off)])
    ELSE None

\* datetime.isoformat()
Isoformat(dt) ==
    Ts(dt.year, dt.month, dt.day, dt.hour, dt.minute, dt.second,
       OffsetText(dt.utcoffset))

\* pd.to_datetime on one isoformat text
ToDatetime(s) == Get(FromIsoformat(s))

\* Texts are sequences of character codes: "0" is 48, "-" is 45.
Digit(n) == 48 + n

\* strftime("%Y-%m")
StrftimeYm(dt) ==
    << Digit(dt.year \div 1000), Digit((dt.year \div 100) % 10),
       Digit((dt.year \div 10) % 10), Digit(dt.year % 10), 45,
       Digit(dt.month \div 10), Digit(dt.month % 10) >>

\* Python's str comparison a < b
RECURSIVE LexLess(_, _)
LexLess(a, b) ==
    IF b = << >> THEN FALSE
    ELSE IF a = << >> THEN TRUE
    ELSE IF Head(a) # Head(b) THEN Head(a) < Head(b)
    ELSE LexLess(Tail(a), Tail(b))

\* bool(x) of a value that is None or a text
Truthy(o) == ~IsNone(o) /\ Get(o).fmt # "empty"

(***************************************************************************)
(* analyzer.process_pr_data                                                *)
(***************************************************************************)
\* ParseCreatedAt without astimezone: the fields stay those of the text
ParseCreatedAtAsWritten(pr, tz) == FromIsoformat(ReplaceZ(pr.createdAt))

\* lines 34-36: Some(created_at) in zone tz, or None for ValueError
ParseCreatedAt(pr, tz) ==
    LET p == FromIsoformat(ReplaceZ(pr.createdAt))
    IN  IF IsNone(p) THEN None ELSE Some(AsTimezone(Get(p), tz))

\* Keeps with the lower bound made exclusive
KeepsExclusive(created_at, cutoff_date, end_date) ==
    /\ (IsNone(cutoff_date) \/ Instant(created_at) > Instant(Get(cutoff_date)))
    /\ (IsNone(end_date) \/ Instant(created_at) <= Instant(Get(end_date)))

\* lines 38-40: the date filter
Keeps(created_at, cutoff_date, end_date) ==
    /\ (IsNone(cutoff_date) \/ Instant(created_at) >= Instant(Get(cutoff_date)))
    /\ (IsNone(end_date) \/ Instant(created_at) <= Instant(Get(end_date)))

\* AuthorOf defaulting to the empty text
AuthorOfBlank(pr) ==
    IF ~IsNone(pr.author) THEN Get(pr.author).login ELSE ""

\* line 44
AuthorOf(pr) ==
    IF ~IsNone(pr.author) THEN Get(pr.author).login ELSE "unknown"

\* TimeToMergeHours dividing the seconds by 60 instead of 3600
TimeToMergeMinutes(merged_at, created_at) ==
    Rat(Instant(merged_at) - Instant(created_at), 60)

\* line 60
TimeToMergeHours(merged_at, created_at) ==
    Rat(Instant(merged_at) - Instant(created_at), 3600)

\* line 62
TimeToMergeDays(time_to_merge_hours) == RatDiv(time_to_merge_hours, 24)

\* TotalChanges adding the wrong pair of fields
TotalChangesFiles(pr) == pr.additions + pr.changedFiles

\* line 69
TotalChanges(pr) == pr.additions + pr.deletions

\* line 65
HasDiffStats(pr) == "additions" \in DOMAIN pr

BaseKeys ==
    {"number", "title", "author", "created_at", "merged_at", "state",
     "month", "year", "time_to_merge_hours", "time_to_merge_days"}

SizeKeys == {"additions", "deletions", "changed_files", "total_changes"}

\* lines 41-69 once every lookup has succeeded: the dict pr_data
PrData(pr, created_at, merged) ==
    [k \in (IF HasDiffStats(pr) THEN BaseKeys \cup SizeKeys ELSE BaseKeys) |->
        CASE k = "number" -> pr.number
          [] k = "title" -> pr.title
          [] k = "author" -> AuthorOf(pr)
          [] k = "created_at" -> Isoformat(created_at)
          [] k = "merged_at" ->
                IF IsNone(merged) THEN None ELSE Some(Isoformat(Get(merged)))
          [] k = "state" -> pr.state
          [] k = "month" -> StrftimeYm(created_at)
          [] k = "year" -> created_at.year
          [] k = "time_to_merge_hours" ->
                IF IsNone(merged) THEN None
                ELSE Some(TimeToMergeHours(Get(merged), created_at))
          [] k = "time_to_merge_days" ->
                IF IsNone(merged) THEN None
                ELSE Some(TimeToMergeDays(TimeToMergeHours(Get(merged), created_at)))
          [] k = "additions" -> Some(pr.additions)
          [] k = "deletions" -> Some(pr.deletions)
          [] k = "changed_files" -> Some(pr.changedFiles)
          [] k = "total_changes" -> Some(TotalChanges(pr))]

\* LoopBody skipping a record whose mergedAt does not parse instead of raising
LoopBodySkipping(pr, cutoff_date, end_date, tz) ==
    LET c == ParseCreatedAt(pr, tz)
        m == IF Truthy(pr.mergedAt)
             THEN FromIsoformat(ReplaceZ(Get(pr.mergedAt)))
             ELSE None
    IN  IF IsNone(c) THEN [kind |-> "error", error |-> "ValueError"]
        ELSE IF ~Keeps(Get(c), cutoff_date, end_date) THEN [kind |-> "skip"]
        ELSE IF "author" \notin DOMAIN pr
             THEN [kind |-> "error", error |-> "KeyError"]
        ELSE IF Truthy(pr.mergedAt) /\ IsNone(m) THEN [kind |-> "skip"]
        ELSE [kind |-> "row",
              row |-> PrData(pr, Get(c),
                             IF IsNone(m) THEN None
                             ELSE Some(AsTimezone(Get(m), tz)))]

\* One iteration of the loop of lines 33-71:
\*   [kind |-> "error", error |-> e]  the exception that leaves the function,
\*   [kind |-> "skip"]                the record fails the date filter,
\*   [kind |-> "row", row |-> d]      d is appended to filtered_prs.
LoopBody(pr, cutoff_date, end_date, tz) ==
    LET c == ParseCreatedAt(pr, tz)
        m == IF Truthy(pr.mergedAt)
             THEN FromIsoformat(ReplaceZ(Get(pr.mergedAt)))
             ELSE None
    IN  IF IsNone(c) THEN [kind |-> "error", error |-> "ValueError"]
        ELSE IF ~Keeps(Get(c), cutoff_date, end_date) THEN [kind |-> "skip"]
        ELSE IF "author" \notin DOMAIN pr
             THEN [kind |-> "error", error |-> "KeyError"]
        ELSE IF Truthy(pr.mergedAt) /\ IsNone(m)
             THEN [kind |-> "error", error |-> "ValueError"]
        ELSE [kind |-> "row",
              row |-> PrData(pr, Get(c),
                             IF IsNone(m) THEN None
                             ELSE Some(AsTimezone(Get(m), tz)))]

\* lines 31-71: filtered_prs, or the first exception
RECURSIVE FilteredPrs(_, _, _, _)
FilteredPrs(prs, cutoff_date, end_date, tz) ==
    IF prs = << >> THEN [error |-> None, list |-> << >>]
    ELSE LET b == LoopBody(Head(prs), cutoff_date, end_date, tz)
         IN  IF b.kind = "error" THEN [error |-> Some(b.error), list |-> << >>]
             ELSE LET rest == FilteredPrs(Tail(prs), cutoff_date, end_date, tz)
                  IN  IF ~IsNone(rest.error) THEN rest
                      ELSE IF b.kind = "skip" THEN rest
                      ELSE [error |-> None, list |-> << b.row >> \o rest.list]

(***************************************************************************)
(* pandas                                                                  *)
(***************************************************************************)
RECURSIVE KeysOf(_)
KeysOf(dicts) ==
    IF dicts = << >> THEN {} ELSE DOMAIN Head(dicts) \cup KeysOf(Tail(dicts))

\* pd.DataFrame(list of dicts): the columns are the union of the keys, a
\* cell whose dict lacks the key is NaN
DataFrame(dicts) ==
    [columns |-> KeysOf(dicts),
     rows |-> [i \in 1 .. Len(dicts) |->
                 [c \in KeysOf(dicts) |->
                    IF c \in DOMAIN dicts[i] THEN dicts[i][c] ELSE None]]]

Raised(e) == [status |-> e, columns |-> {}, rows |-> << >>]
Returned(frame) ==
    [status |-> "ok", columns |-> frame.columns, rows |-> frame.rows]

\* lines 31-76
process_pr_data(prs, cutoff_date, end_date, tz) ==
    LET f  == FilteredPrs(prs, cutoff_date, end_date, tz)
        fr == DataFrame(f.list)
    IN  IF ~IsNone(f.error) THEN Raised(Get(f.error))
        ELSE IF "created_at" \notin fr.columns THEN Raised("KeyError")
        ELSE Returned([fr EXCEPT !.rows =
                 [i \in DOMAIN fr.rows |->
                    [fr.rows[i] EXCEPT !.created_at = ToDatetime(@)]]])

(***************************************************************************)
(* analyzer.calculate_monthly_statistics                                   *)
(***************************************************************************)
InSeq(x, seq) == \E i \in DOMAIN seq : seq[i] = x

\* Series.unique(): the distinct values in order of first appearance
RECURSIVE Unique(_, _)
Unique(vals, seen) ==
    IF vals = << >> THEN seen
    ELSE Unique(Tail(vals),
                IF InSeq(Head(vals), seen) THEN seen ELSE Append(seen, Head(vals)))

Column(rows, c) == [i \in DOMAIN rows |-> rows[i][c]]

\* the non-NaN cells of an optional column
RECURSIVE DropNa(_)
DropNa(cells) ==
    IF cells = << >> THEN << >>
    ELSE IF IsNone(Head(cells)) THEN DropNa(Tail(cells))
    ELSE << Get(Head(cells)) >> \o DropNa(Tail(cells))

RECURSIVE RatSum(_)
RatSum(vals) ==
    IF vals = << >> THEN Rat(0, 1) ELSE RatAdd(Head(vals), RatSum(Tail(vals)))

\* Series.mean() of a non-empty float column
Mean(vals) == RatDiv(RatSum(vals), Len(vals))

\* Series.nunique() of a column of texts
NUnique(vals) == Cardinality({vals[i] : i \in DOMAIN vals})

RECURSIVE InsertInt(_, _)
InsertInt(x, sorted) ==
    IF sorted = << >> THEN << x >>
    ELSE IF x <= Head(sorted) THEN << x >> \o sorted
    ELSE << Head(sorted) >> \o InsertInt(x, Tail(sorted))

RECURSIVE SortInts(_)
SortInts(vals) ==
    IF vals = << >> THEN << >> ELSE InsertInt(Head(vals), SortInts(Tail(vals)))

\* Series.median() of an integer column with NaN cells skipped; NaN if none
Median(cells) ==
    LET v == SortInts(DropNa(cells))
        n == Len(v)
    IN  IF n = 0 THEN None
        ELSE IF n % 2 = 1 THEN Some(Rat(v[(n + 1) \div 2], 1))
        ELSE Some(Rat(v[n \div 2] + v[n \div 2 + 1], 2))

\* AvgPrsPerPerson with the quotient inverted
AuthorsPerPr(merged_pr_count, unique_authors) ==
    IF unique_authors > 0 THEN Rat(unique_authors, merged_pr_count) ELSE Rat(0, 1)

\* lines 106-110
AvgPrsPerPerson(merged_pr_count, unique_authors) ==
    IF unique_authors > 0 THEN Rat(merged_pr_count, unique_authors) ELSE Rat(0, 1)

\* MonthPrs taking the whole merged subset, whatever the month
MonthPrsAll(df_merged, month) == df_merged

\* line 95: df_merged[df_merged["month"] == month]
RECURSIVE MonthPrs(_, _)
MonthPrs(df_merged, month) ==
    IF df_merged = << >> THEN << >>
    ELSE IF Head(df_merged).month = month
         THEN << Head(df_merged) >> \o MonthPrs(Tail(df_merged), month)
    ELSE MonthPrs(Tail(df_merged), month)

\* lines 89-90: df[df["time_to_merge_days"].notna()]
RECURSIVE DfMerged(_)
DfMerged(rows) ==
    IF rows = << >> THEN << >>
    ELSE IF ~IsNone(Head(rows).time_to_merge_days)
         THEN << Head(rows) >> \o DfMerged(Tail(rows))
    ELSE DfMerged(Tail(rows))

StatsKeys ==
    {"month", "merged_pr_count", "avg_time_to_merge_hours",
     "avg_time_to_merge_days", "unique_authors", "avg_prs_per_person"}

MedianKeys == {"median_total_changes", "median_changed_files"}

\* lines 97-115: the dict stats of one month
Stats(month, month_prs, columns) ==
    LET hours == DropNa(Column(month_prs, "time_to_merge_hours"))
    IN  [k \in (IF "total_changes" \in columns
                THEN StatsKeys \cup MedianKeys ELSE StatsKeys) |->
           CASE k = "month" -> month
             [] k = "merged_pr_count" -> Len(month_prs)
             [] k = "avg_time_to_merge_hours" -> Mean(hours)
             [] k = "avg_time_to_merge_days" -> RatDiv(Mean(hours), 24)
             [] k = "unique_authors" -> NUnique(Column(month_prs, "author"))
             [] k = "avg_prs_per_person" ->
                   AvgPrsPerPerson(Len(month_prs),
                                   NUnique(Column(month_prs, "author")))
             [] k = "median_total_changes" ->
                   Median(Column(month_prs, "total_changes"))
             [] k = "median_changed_files" ->
                   Median(Column(month_prs, "changed_files"))]

\* lines 92-117: monthly_data.values(), in order of insertion
MonthlyData(df_merged, columns) ==
    LET months == Unique(Column(df_merged, "month"), << >>)
    IN  [i \in DOMAIN months |->
           Stats(months[i], MonthPrs(df_merged, months[i]), columns)]

RECURSIVE InsertRow(_, _)
InsertRow(x, sorted) ==
    IF sorted = << >> THEN << x >>
    ELSE IF ~LexLess(Head(sorted).month, x.month) THEN << x >> \o sorted
    ELSE << Head(sorted) >> \o InsertRow(x, Tail(sorted))

\* SortValuesMonth leaving the rows in order of insertion
SortValuesNone(rows) == rows

\* DataFrame.sort_values("month") on the rows
RECURSIVE SortValuesMonth(_)
SortValuesMonth(rows) ==
    IF rows = << >> THEN << >>
    ELSE InsertRow(Head(rows), SortValuesMonth(Tail(rows)))

\* lines 89-120, on a frame process_pr_data returned
calculate_monthly_statistics(df) ==
    IF "time_to_merge_days" \notin df.columns THEN Raised("KeyError")
    ELSE LET fr == DataFrame(MonthlyData(DfMerged(df.rows), df.columns))
         IN  IF "month" \notin fr.columns THEN Raised("KeyError")
             ELSE Returned([fr EXCEPT !.rows = SortValuesMonth(@)])

(***************************************************************************)
(* Inputs                                                                  *)
(***************************************************************************)
\* the longest batch of raw records
MaxPRs == 2

\* the --timezone offsets tried (cli.py: default 9)
Zones == {0, 9}

\* cli.py lines 132 and 138: strptime(text, "%Y-%m-%d").replace(tzinfo=tz)
Midnight(y, m, d, tz) ==
    [year |-> y, month |-> m, day |-> d,
     hour |-> 0, minute |-> 0, second |-> 0, utcoffset |-> tz]

CutoffChoices(tz) == {None, Some(Midnight(2024, 2, 1, tz))}
EndChoices(tz) == {None, Some(Midnight(2024, 3, 1, tz))}

\* createdAt texts: around the cutoff and the end of either zone, and one
\* that names no day of the calendar
C1s  == Ts(2024, 1, 31, 14, 59, 59, "Z")
C2s  == Ts(2024, 1, 31, 15, 0, 0, "Z")
C3s  == Ts(2024, 1, 31, 20, 0, 0, "Z")
C4s  == Ts(2024, 3, 1, 0, 0, 0, "+09:00")
C5s  == Ts(2024, 3, 1, 0, 0, 0, "Z")
CBad == Ts(2024, 2, 30, 10, 0, 0, "Z")

\* mergedAt texts
M5    == Ts(2024, 2, 1, 1, 0, 0, "Z")
M15   == Ts(2024, 2, 1, 11, 0, 0, "Z")
MLate == Ts(2024, 3, 2, 6, 30, 0, "Z")
MBad  == Ts(2024, 13, 1, 0, 0, 0, "Z")

Alice == Some([login |-> "alice"])
Bob   == Some([login |-> "bob"])

NoSize == None
Size(a, d, f) == Some([additions |-> a, deletions |-> d, changedFiles |-> f])

\* A raw record as gh prints it, before its number and title are set.
\* hasAuthor = FALSE leaves the author key out; size = None leaves the three
\* size keys out (fetcher.py lines 73-74 asks for them together).
Raw(createdAt, mergedAt, hasAuthor, author, state, size) ==
    [k \in {"createdAt", "mergedAt", "state"}
           \cup (IF hasAuthor THEN {"author"} ELSE {})
           \cup (IF IsNone(size) THEN {}
                 ELSE {"additions", "deletions", "changedFiles"}) |->
       CASE k = "createdAt" -> createdAt
         [] k = "mergedAt" -> mergedAt
         [] k = "state" -> state
         [] k = "author" -> author
         [] k = "additions" -> Get(size).additions
         [] k = "deletions" -> Get(size).deletions
         [] k = "changedFiles" -> Get(size).changedFiles]

RawRecords ==
    {Raw(c, None, TRUE, Alice, "OPEN", NoSize) :
        c \in {C1s, C2s, C3s, C4s, C5s, CBad}}
    \cup {Raw(c, Some(MLate), TRUE, Alice, "MERGED", NoSize) : c \in {C2s, C5s}}
    \cup {Raw(C3s, Some(m), TRUE, Bob, "MERGED", NoSize) : m \in {M5, M15, MBad}}
    \cup {Raw(C1s, Some(MBad), TRUE, Bob, "MERGED", NoSize),
          Raw(C3s, Some(EmptyStr), TRUE, Bob, "CLOSED", NoSize),
          Raw(C1s, Some(M5), FALSE, None, "MERGED", NoSize),
          Raw(C3s, Some(M5), FALSE, None, "MERGED", NoSize),
          Raw(C3s, Some(M5), TRUE, None, "MERGED", NoSize),
          Raw(C3s, None, TRUE, Alice, "OPEN", Size(10, 5, 2)),
          Raw(C3s, Some(M15), TRUE, Alice, "MERGED", Size(10, 5, 2)),
          Raw(C3s, Some(M5), TRUE, Bob, "MERGED", Size(1, 0, 4))}

\* the i-th record of a batch gets number i and a title
Numbered(shapes) ==
    [i \in DOMAIN shapes |->
       [k \in DOMAIN shapes[i] \cup {"number", "title"} |->
          IF k = "number" THEN i
          ELSE IF k = "title" THEN "title"
          ELSE shapes[i][k]]]

Batches ==
    UNION {{Numbered(s) : s \in [1 .. n -> RawRecords]} : n \in 0 .. MaxPRs}

(***************************************************************************)
(* fetcher.py                                                              *)
(***************************************************************************)
\* Repository ids are sequences of character codes.
Letters == (65 .. 90) \cup (97 .. 122)
Digits  == 48 .. 57

\* [a-zA-Z0-9_-] and [a-zA-Z0-9_.-]
OwnerChars == Letters \cup Digits \cup {95, 45}
NameChars  == Letters \cup Digits \cup {95, 46, 45}

AllIn(text, chars) == \A i \in DOMAIN text : text[i] \in chars

\* the name part up to "$", which in Python also matches just before a
\* newline that ends the text
NameToEnd(rest) ==
    \/ rest # << >> /\ AllIn(rest, NameChars)
    \/ /\ Len(rest) >= 2
       /\ rest[Len(rest)] = 10
       /\ AllIn(SubSeq(rest, 1, Len(rest) - 1), NameChars)

\* RepoMatches testing the owner part only
OwnerMatches(repo) ==
    \E k \in 2 .. Len(repo) :
        /\ AllIn(SubSeq(repo, 1, k - 1), OwnerChars)
        /\ repo[k] = 47

\* lines 19-20: re.match(r"^[a-zA-Z0-9_-]+/[a-zA-Z0-9_.-]+$", repo)
RepoMatches(repo) ==
    \E k \in 2 .. Len(repo) :
        /\ AllIn(SubSeq(repo, 1, k - 1), OwnerChars)
        /\ repo[k] = 47
        /\ NameToEnd(SubSeq(repo, k + 1, Len(repo)))

\* "o/r", "foo bar/baz", "o/r.x" followed by a newline, "o/r x"
RepoPlain   == << 111, 47, 114 >>
RepoSpace   == << 102, 111, 111, 32, 98, 97, 114, 47, 98, 97, 122 >>
RepoNewline == << 111, 47, 114, 46, 120, 10 >>
RepoTail    == << 111, 47, 114, 32, 120 >>

Repos == {RepoPlain, RepoSpace, RepoNewline, RepoTail}

\* the names in pr.get("labels", [])
LabelNames(pr) ==
    IF "labels" \in DOMAIN pr
    THEN {pr.labels[i].name : i \in DOMAIN pr.labels}
    ELSE {}

ExcludeSet(exclude_labels) ==
    {exclude_labels[i] : i \in DOMAIN exclude_labels}

\* HasExcludedLabel with all() in place of any()
HasOnlyExcludedLabels(pr, exclude_set) == LabelNames(pr) \subseteq exclude_set

\* lines 130-133: any(label_obj.get("name") in exclude_set for label_obj in ...)
HasExcludedLabel(pr, exclude_set) == LabelNames(pr) \cap exclude_set # {}

RECURSIVE WithoutExcluded(_, _)
WithoutExcluded(data, exclude_set) ==
    IF data = << >> THEN << >>
    ELSE IF HasExcludedLabel(Head(data), exclude_set)
         THEN WithoutExcluded(Tail(data), exclude_set)
    ELSE << Head(data) >> \o WithoutExcluded(Tail(data), exclude_set)

\* lines 124-134: a falsy exclude_labels (None or empty) filters nothing
FilterExcluded(data, exclude_labels) ==
    IF exclude_labels # << >>
    THEN WithoutExcluded(data, ExcludeSet(exclude_labels))
    ELSE data

\* the longest list gh prints
MaxFetched == 2

Label(name) == [name |-> name]

\* a raw record with its labels key; labels = None leaves the key out
Labelled(shape, labels) ==
    [k \in DOMAIN shape \cup (IF IsNone(labels) THEN {} ELSE {"labels"}) |->
        IF k = "labels" THEN Get(labels) ELSE shape[k]]

FetchedRecords ==
    {Labelled(Raw(C3s, Some(M5), TRUE, Bob, "MERGED", Size(1, 0, 4)), None),
     Labelled(Raw(C3s, Some(M15), TRUE, Alice, "MERGED", Size(10, 5, 2)),
              Some(<< >>)),
     Labelled(Raw(C3s, Some(M5), TRUE, Alice, "MERGED", Size(10, 5, 2)),
              Some(<< Label("dependencies") >>)),
     Labelled(Raw(C5s, Some(MLate), TRUE, Bob, "MERGED", Size(1, 0, 4)),
              Some(<< Label("bug") >>)),
     Labelled(Raw(C3s, None, TRUE, Bob, "OPEN", Size(1, 0, 4)),
              Some(<< Label("bug"), Label("dependencies") >>))}

FetchedLists ==
    UNION {{Numbered(s) : s \in [1 .. n -> FetchedRecords]} : n \in 0 .. MaxFetched}

\* what subprocess.run can come to: TimeoutExpired, or a CompletedProcess
\* with a return code and a stdout that is JSON or some other text
JsonText(value) == [fmt |-> "json", value |-> value]
OtherText == [fmt |-> "text"]

Completed(returncode, stdout) ==
    [kind |-> "completed", returncode |-> returncode, stdout |-> stdout]

Outcomes ==
    {[kind |-> "timeout"], Completed(1, OtherText),
     Completed(1, JsonText(<< >>)), Completed(0, OtherText)}
    \cup {Completed(0, JsonText(l)) : l \in FetchedLists}

NoResult == [kind |-> "none"]

\* a raw data file left by an earlier run
StaleFile ==
    Some(<< [k \in {"number", "title", "createdAt", "mergedAt", "state", "author"} |->
               CASE k = "number" -> 999
                 [] k = "title" -> "stale"
                 [] k = "createdAt" -> C3s
                 [] k = "mergedAt" -> Some(M5)
                 [] k = "state" -> "MERGED"
                 [] k = "author" -> Alice] >>)

(***************************************************************************)
(* cli.py                                                                  *)
(***************************************************************************)
\* --cutoff-date / --end-date texts
DateText(y, m, d) == [fmt |-> "ymd", year |-> y, month |-> m, day |-> d]
SlashDate == [fmt |-> "other"]

\* datetime.strptime(text, "%Y-%m-%d"): Some(date), or None for ValueError
Strptime(text) ==
    IF /\ text.fmt = "ymd"
       /\ text.year \in Years
       /\ text.month \in 1 .. 12
       /\ text.day \in 1 .. DaysInMonth(text.year, text.month)
    THEN Some([year |-> text.year, month |-> text.month, day |-> text.day])
    ELSE None

CutoffTexts ==
    {None, Some(DateText(2024, 2, 1)), Some(DateText(2024, 2, 30)), Some(SlashDate)}

EndTexts == {None, Some(DateText(2024, 3, 1)), Some(DateText(2024, 13, 1))}

\* exclude_labels of fetch_pr_data: empty, the default of --exclude-label,
\* two labels
NoExclude      == << >>
DefaultExclude == << "dependencies" >>
ExcludeChoices == {NoExclude, DefaultExclude, << "bug", "wip" >>}

(***************************************************************************)
(* The state machine.  pc is the statement the command is about to run;    *)
(* log lists the steps run so far; failure is the exception that ended it. *)
(***************************************************************************)
VARIABLES prs, cutoff_date, end_date, tz, pc, df, monthly_stats,
          command, repo, exclude_labels, cutoff_text, end_text,
          result, data, raw_file, log, failure

vars == << prs, cutoff_date, end_date, tz, pc, df, monthly_stats,
           command, repo, exclude_labels, cutoff_text, end_text,
           result, data, raw_file, log, failure >>

args == << command, repo, exclude_labels, cutoff_text, end_text, tz >>
fetched == << result, data, raw_file >>
analysed == << prs, cutoff_date, end_date, df, monthly_stats >>

NotRun == [status |-> "none", columns |-> {}, rows |-> << >>]

\* process_pr_data about to be called on a batch, as analyze does at line 143
Init ==
    /\ tz \in Zones
    /\ cutoff_date \in CutoffChoices(tz)
    /\ end_date \in EndChoices(tz)
    /\ prs \in Batches
    /\ pc = "start"
    /\ df = NotRun
    /\ monthly_stats = NotRun
    /\ command = "analyze"
    /\ repo = RepoPlain
    /\ exclude_labels = DefaultExclude
    /\ cutoff_text = None
    /\ end_text = None
    /\ result = NoResult
    /\ data = << >>
    /\ raw_file = None
    /\ log = << >>
    /\ failure = "none"

\* a command about to start: fetch (line 76), analyze (line 120), run (line 245)
InitCli ==
    /\ command \in {"fetch", "analyze", "run"}
    /\ tz = 9
    /\ repo \in (IF command = "analyze" THEN {RepoPlain} ELSE Repos)
    /\ exclude_labels \in
          (IF command = "fetch" THEN ExcludeChoices ELSE {DefaultExclude})
    /\ cutoff_text \in (IF command = "fetch" THEN {None} ELSE CutoffTexts)
    /\ end_text \in (IF command = "fetch" THEN {None} ELSE EndTexts)
    /\ raw_file \in
          (IF command = "analyze"
           THEN {None} \cup {Some(l) : l \in FetchedLists}
           ELSE {None, StaleFile})
    /\ pc = (CASE command = "fetch" -> "validate"
               [] command = "analyze" -> "load"
               [] command = "run" -> "mkdir")
    /\ prs = << >>
    /\ cutoff_date = None
    /\ end_date = None
    /\ df = NotRun
    /\ monthly_stats = NotRun
    /\ result = NoResult
    /\ data = << >>
    /\ log = << >>
    /\ failure = "none"

\* the step named is run; it raises err, or goes on to statement next
Step(name, err, next) ==
    /\ log' = Append(log, name)
    /\ pc' = IF err = "none" THEN next ELSE "aborted"
    /\ failure' = err

\* run, lines 249-250: output_dir_path.mkdir(parents=True, exist_ok=True)
MakeOutputDir ==
    /\ pc = "mkdir"
    /\ \E ok \in BOOLEAN : Step("mkdir", IF ok THEN "none" ELSE "OSError", "validate")
    /\ UNCHANGED << args, fetched, analysed >>

\* fetch_pr_data, line 55: validate_repo_format(repo)
ValidateRepo ==
    /\ pc = "validate"
    /\ Step("validate", IF RepoMatches(repo) THEN "none" ELSE "ValueError",
            "subprocess")
    /\ UNCHANGED << args, fetched, analysed >>

\* fetch_pr_data, lines 109-115: subprocess.run(cmd, ..., timeout=timeout)
RunSubprocess ==
    /\ pc = "subprocess"
    /\ result' \in Outcomes
    /\ Step("subprocess",
            IF result'.kind = "timeout" THEN "TimeoutExpired" ELSE "none", "check")
    /\ UNCHANGED << args, data, raw_file, analysed >>

\* fetch_pr_data, lines 117-118
CheckReturnCode ==
    /\ pc = "check"
    /\ Step("check", IF result.returncode # 0 THEN "RuntimeError" ELSE "none",
            "parse")
    /\ UNCHANGED << args, fetched, analysed >>

\* fetch_pr_data, line 121: data = json.loads(result.stdout)
ParseJson ==
    /\ pc = "parse"
    /\ IF result.stdout.fmt = "json"
       THEN data' = result.stdout.value /\ Step("parse", "none", "filter")
       ELSE data' = data /\ Step("parse", "JSONDecodeError", "filter")
    /\ UNCHANGED << args, result, raw_file, analysed >>

\* fetch_pr_data, lines 123-138
FilterLabels ==
    /\ pc = "filter"
    /\ data' = FilterExcluded(data, exclude_labels)
    /\ Step("filter", "none", "write")
    /\ UNCHANGED << args, result, raw_file, analysed >>

\* fetch_pr_data, lines 140-147; fetch then ends, run goes on to line 273
WriteRawFile ==
    /\ pc = "write"
    /\ raw_file' = Some(data)
    /\ Step("write", "none", IF command = "run" THEN "load" ELSE "done")
    /\ UNCHANGED << args, result, data, analysed >>

\* analyze line 126, run line 273: prs = load_pr_data(file)
LoadPrData ==
    /\ pc = "load"
    /\ IF IsNone(raw_file)
       THEN prs' = prs /\ Step("load", "FileNotFoundError", "cutoff")
       ELSE prs' = Get(raw_file) /\ Step("load", "none", "cutoff")
    /\ UNCHANGED << args, fetched, cutoff_date, end_date, df, monthly_stats >>

\* analyze lines 130-133, run lines 277-280
ParseCutoffDate ==
    /\ pc = "cutoff"
    /\ IF ~Truthy(cutoff_text)
       THEN cutoff_date' = None /\ Step("cutoff", "none", "end")
       ELSE LET d == Strptime(Get(cutoff_text))
            IN  IF IsNone(d)
                THEN cutoff_date' = None /\ Step("cutoff", "ValueError", "end")
                ELSE /\ cutoff_date' =
                           Some(Midnight(Get(d).year, Get(d).month, Get(d).day, tz))
                     /\ Step("cutoff", "none", "end")
    /\ UNCHANGED << args, fetched, prs, end_date, df, monthly_stats >>

\* analyze lines 136-139, run lines 283-286
ParseEndDate ==
    /\ pc = "end"
    /\ IF ~Truthy(end_text)
       THEN end_date' = None /\ Step("end", "none", "start")
       ELSE LET d == Strptime(Get(end_text))
            IN  IF IsNone(d)
                THEN end_date' = None /\ Step("end", "ValueError", "start")
                ELSE /\ end_date' =
                           Some(Midnight(Get(d).year, Get(d).month, Get(d).day, tz))
                     /\ Step("end", "none", "start")
    /\ UNCHANGED << args, fetched, prs, cutoff_date, df, monthly_stats >>

\* df = process_pr_data(prs, cutoff_date=cutoff, end_date=end, tz=tz)
ProcessPrData ==
    /\ pc = "start"
    /\ df' = process_pr_data(prs, cutoff_date, end_date, tz)
    /\ log' = Append(log, "process")
    /\ pc' = IF df'.status = "ok" THEN "processed" ELSE "aborted"
    /\ failure' = IF df'.status = "ok" THEN "none" ELSE df'.status
    /\ UNCHANGED << args, fetched, prs, cutoff_date, end_date, monthly_stats >>

\* monthly_stats = calculate_monthly_statistics(df)
CalculateMonthlyStatistics ==
    /\ pc = "processed"
    /\ monthly_stats' = calculate_monthly_statistics(df)
    /\ log' = Append(log, "aggregate")
    /\ pc' = IF monthly_stats'.status = "ok" THEN "aggregated" ELSE "aborted"
    /\ failure' = IF monthly_stats'.status = "ok" THEN "none"
                  ELSE monthly_stats'.status
    /\ UNCHANGED << args, fetched, prs, cutoff_date, end_date, df >>

\* analyze line 153, run line 294: save_statistics(monthly_stats, df, ...);
\* analyze then ends, run goes on to line 301
SaveStatistics ==
    /\ pc = "aggregated"
    /\ \E ok \in BOOLEAN :
          Step("save", IF ok THEN "none" ELSE "OSError",
               IF command = "run" THEN "visualize" ELSE "done")
    /\ UNCHANGED << args, fetched, analysed >>

\* run lines 301-303: create_all_visualizations(monthly_stats, ...)
CreateAllVisualizations ==
    /\ pc = "visualize"
    /\ \E ok \in BOOLEAN :
          Step("visualize", IF ok THEN "none" ELSE "OSError", "done")
    /\ UNCHANGED << args, fetched, analysed >>

Next == ProcessPrData \/ CalculateMonthlyStatistics

Spec == Init /\ [][Next]_vars

NextCli ==
    \/ MakeOutputDir
    \/ ValidateRepo
    \/ RunSubprocess
    \/ CheckReturnCode
    \/ ParseJson
    \/ FilterLabels
    \/ WriteRawFile
    \/ LoadPrData
    \/ ParseCutoffDate
    \/ ParseEndDate
    \/ ProcessPrData
    \/ CalculateMonthlyStatistics
    \/ SaveStatistics
    \/ CreateAllVisualizations

SpecCli == InitCli /\ [][NextCli]_vars

(***************************************************************************)
(* Properties                                                              *)
(***************************************************************************)
CreatedValid(pr) == ~IsNone(FromIsoformat(ReplaceZ(pr.createdAt)))

\* the instant a valid createdAt text names
CreatedInstant(pr) == Instant(Get(FromIsoformat(ReplaceZ(pr.createdAt))))

\* t lies in [cutoff_date, end_date], an absent bound not bounding
InBounds(t) ==
    /\ (IsNone(cutoff_date) \/ t >= Instant(Get(cutoff_date)))
    /\ (IsNone(end_date) \/ t <= Instant(Get(end_date)))

\* the raw record a row of the PR Table was built from (numbers are unique)
Source(row) == prs[row.number]

HasRow(i) == \E j \in DOMAIN df.rows : df.rows[j].number = prs[i].number

\* C1: in a PR Table that process_pr_data returns, raw record i has a row iff
\* its createdAt instant is >= cutoff (when given) and <= end (when given),
\* both bounds inclusive; every row's created_at is that instant shown in the
\* configured zone and lies in [cutoff, end]; rows keep the input order; with
\* both bounds absent every record has a row.
C1_DateFilter ==
    df.status = "ok" =>
        /\ \A i \in DOMAIN prs : HasRow(i) <=> InBounds(CreatedInstant(prs[i]))
        /\ \A j \in DOMAIN df.rows :
              /\ InBounds(Instant(df.rows[j].created_at))
              /\ Instant(df.rows[j].created_at) = CreatedInstant(Source(df.rows[j]))
              /\ df.rows[j].created_at.utcoffset = tz
        /\ \A j, k \in DOMAIN df.rows :
              j < k => df.rows[j].number < df.rows[k].number
        /\ (IsNone(cutoff_date) /\ IsNone(end_date)) => Len(df.rows) = Len(prs)

\* C1 witness: a table was returned under both bounds, one row sits exactly
\* on the cutoff, one exactly on the end
C1_Witness ==
    /\ df.status = "ok"
    /\ ~IsNone(cutoff_date) /\ ~IsNone(end_date)
    /\ \E j \in DOMAIN df.rows :
          Instant(df.rows[j].created_at) = Instant(Get(cutoff_date))
    /\ \E j \in DOMAIN df.rows :
          Instant(df.rows[j].created_at) = Instant(Get(end_date))

\* the seconds between a row's merged_at and its created_at
Elapsed(row) == Instant(ToDatetime(Get(row.merged_at))) - Instant(row.created_at)

\* C2: in every row of a returned PR Table time_to_merge_hours is null iff
\* merged_at is null, time_to_merge_days is null iff time_to_merge_hours is,
\* hours * 3600 is the seconds from created_at to merged_at, days * 24 is
\* hours; merged_at is null exactly when the raw mergedAt is null (or the
\* empty text), and the state is the raw record's state.
C2_TimeToMerge ==
    df.status = "ok" =>
        \A j \in DOMAIN df.rows :
            LET r == df.rows[j]
                h == r.time_to_merge_hours
                d == r.time_to_merge_days
            IN  /\ IsNone(h) <=> IsNone(r.merged_at)
                /\ IsNone(d) <=> IsNone(h)
                /\ IsNone(r.merged_at) <=> ~Truthy(Source(r).mergedAt)
                /\ r.state = Source(r).state
                /\ ~IsNone(h) =>
                      /\ Get(h).d > 0 /\ 3600 % Get(h).d = 0
                      /\ Get(h).n * (3600 \div Get(h).d) = Elapsed(r)
                      /\ Get(d).d > 0
                      /\ Rat(Get(d).n * 24, Get(d).d) = Get(h)

\* C2 witness: a returned table holds a merged row with a positive time to
\* merge and an unmerged row whose raw mergedAt is null and state is OPEN
C2_Witness ==
    /\ df.status = "ok"
    /\ \E j \in DOMAIN df.rows :
          ~IsNone(df.rows[j].time_to_merge_hours)
          /\ Get(df.rows[j].time_to_merge_hours).n > 0
    /\ \E j \in DOMAIN df.rows :
          /\ IsNone(Source(df.rows[j]).mergedAt)
          /\ IsNone(df.rows[j].time_to_merge_hours)
          /\ df.rows[j].state = "OPEN"

\* every record parses and the date filter rejects every one (or there is none)
NothingKept ==
    \A i \in DOMAIN prs :
        CreatedValid(prs[i]) /\ ~InBounds(CreatedInstant(prs[i]))

\* C3: when the batch is empty or the date filter rejects every record,
\* process_pr_data returns a PR Table of zero rows and does not fail.
C3_EmptyTable ==
    (pc # "start" /\ NothingKept) => (df.status = "ok" /\ df.rows = << >>)

NoMergedRow ==
    \A j \in DOMAIN df.rows : IsNone(df.rows[j].time_to_merge_days)

\* C4: when no row of the PR Table has a time_to_merge_days,
\* calculate_monthly_statistics returns a Monthly Table of zero rows and does
\* not fail.
C4_EmptyMonthly ==
    (df.status = "ok" /\ pc \in {"aggregated", "aborted"} /\ NoMergedRow)
        => (monthly_stats.status = "ok" /\ monthly_stats.rows = << >>)

\* the rows of the PR Table that count for month m
MergedOf(m) ==
    {j \in DOMAIN df.rows :
        df.rows[j].month = m /\ ~IsNone(df.rows[j].time_to_merge_days)}

MergedMonths ==
    {df.rows[j].month :
        j \in {k \in DOMAIN df.rows : ~IsNone(df.rows[k].time_to_merge_days)}}

\* C5: a returned Monthly Table has exactly one row for each month that some
\* row of the PR Table with a time_to_merge_days has, no other row (so no row
\* counts zero merged PRs), and its month texts ascend strictly.
C5_MonthlyRows ==
    monthly_stats.status = "ok" =>
        LET rows == monthly_stats.rows
        IN  /\ {rows[i].month : i \in DOMAIN rows} = MergedMonths
            /\ Len(rows) = Cardinality(MergedMonths)
            /\ \A i \in DOMAIN rows : rows[i].merged_pr_count > 0
            /\ \A i \in DOMAIN rows :
                  i < Len(rows) => LexLess(rows[i].month, rows[i + 1].month)

\* C5 witness: two months were returned although the later month came first
\* in the PR Table
C5_Witness ==
    /\ monthly_stats.status = "ok"
    /\ Len(monthly_stats.rows) = 2
    /\ Len(df.rows) = 2
    /\ LexLess(df.rows[2].month, df.rows[1].month)

\* the seconds a time_to_merge_hours cell stands for
HoursAsSeconds(h) == h.n * (3600 \div h.d)

RECURSIVE SumSeconds(_)
SumSeconds(js) ==
    IF js = {} THEN 0
    ELSE LET j == CHOOSE x \in js : TRUE
         IN  HoursAsSeconds(Get(df.rows[j].time_to_merge_hours))
             + SumSeconds(js \ {j})

\* C6: in every row of a returned Monthly Table merged_pr_count is the number
\* of PR Table rows of that month with a time_to_merge_days,
\* avg_time_to_merge_hours is the sum of their time_to_merge_hours over that
\* number, avg_time_to_merge_days is that mean over 24, unique_authors is the
\* number of their distinct authors; unmerged rows count for nothing.
C6_MonthlyValues ==
    monthly_stats.status = "ok" =>
        \A i \in DOMAIN monthly_stats.rows :
            LET r  == monthly_stats.rows[i]
                js == MergedOf(r.month)
            IN  /\ r.merged_pr_count = Cardinality(js)
                /\ r.avg_time_to_merge_hours
                      = Rat(SumSeconds(js), 3600 * Cardinality(js))
                /\ r.avg_time_to_merge_days
                      = Rat(SumSeconds(js), 86400 * Cardinality(js))
                /\ r.unique_authors
                      = Cardinality({df.rows[j].author : j \in js})

\* C6 witness: one month with two merged PRs of 5 and 15 hours by two
\* authors: count 2, mean 10 hours (5/12 of a day), 2 unique authors
C6_Witness ==
    /\ monthly_stats.status = "ok"
    /\ \E i \in DOMAIN monthly_stats.rows :
          LET r == monthly_stats.rows[i]
          IN  /\ r.merged_pr_count = 2
              /\ r.avg_time_to_merge_hours = [n |-> 10, d |-> 1]
              /\ r.avg_time_to_merge_days = [n |-> 5, d |-> 12]
              /\ r.unique_authors = 2
              /\ \E j, k \in MergedOf(r.month) :
                    /\ Get(df.rows[j].time_to_merge_hours) = [n |-> 5, d |-> 1]
                    /\ Get(df.rows[k].time_to_merge_hours) = [n |-> 15, d |-> 1]

\* C7: in every row of a returned Monthly Table avg_prs_per_person is
\* merged_pr_count / unique_authors when unique_authors > 0 and 0 when it is
\* 0; it is a number (positive denominator) and >= 0.
C7_AvgPrsPerPerson ==
    monthly_stats.status = "ok" =>
        \A i \in DOMAIN monthly_stats.rows :
            LET r == monthly_stats.rows[i]
                a == r.avg_prs_per_person
            IN  /\ a.d > 0 /\ a.n >= 0
                /\ r.unique_authors > 0 =>
                      a.n * r.unique_authors = r.merged_pr_count * a.d
                /\ r.unique_authors = 0 => a.n = 0

\* C7 witness: a month with two merged PRs of one author, 2 PRs per person
C7_Witness ==
    /\ monthly_stats.status = "ok"
    /\ \E i \in DOMAIN monthly_stats.rows :
          /\ monthly_stats.rows[i].merged_pr_count = 2
          /\ monthly_stats.rows[i].unique_authors = 1
          /\ monthly_stats.rows[i].avg_prs_per_person = [n |-> 2, d |-> 1]

\* record i passes the date filter (its createdAt parses and lies in bounds)
Kept(i) == CreatedValid(prs[i]) /\ InBounds(CreatedInstant(prs[i]))

\* a mergedAt that is a non-empty text and no valid timestamp
MergedMalformed(pr) ==
    Truthy(pr.mergedAt) /\ IsNone(FromIsoformat(ReplaceZ(Get(pr.mergedAt))))

OnlyAuthorAtStake ==
    /\ \A i \in DOMAIN prs : CreatedValid(prs[i])
    /\ \A i \in DOMAIN prs : Kept(i) => ~MergedMalformed(prs[i])
    /\ \E i \in DOMAIN prs : Kept(i)

AuthorAbsent(pr) == "author" \notin DOMAIN pr \/ IsNone(pr.author)

\* the author the claim expects on the normalized record
ExpectedAuthor(pr) ==
    IF AuthorAbsent(pr) THEN "unknown" ELSE Get(pr.author).login

SizeCell(row, k) == IF k \in DOMAIN row THEN row[k] ELSE None

\* C10: in every row of a returned PR Table the cells additions, deletions,
\* changed_files and total_changes are all present or all absent, present iff
\* the raw record has the size fields, then equal to the raw values, and
\* total_changes = additions + deletions.
C10_SizeFields ==
    df.status = "ok" =>
        \A j \in DOMAIN df.rows :
            LET r   == df.rows[j]
                src == Source(r)
                has == {k \in SizeKeys : ~IsNone(SizeCell(r, k))}
            IN  /\ has = {} \/ has = SizeKeys
                /\ has = SizeKeys <=> "additions" \in DOMAIN src
                /\ has = SizeKeys =>
                      /\ Get(r.additions) = src.additions
                      /\ Get(r.deletions) = src.deletions
                      /\ Get(r.changed_files) = src.changedFiles
                      /\ Get(r.total_changes)
                            = Get(r.additions) + Get(r.deletions)

\* C10 witness: a returned table built from a mixed batch, one row with the
\* four size cells (total 15 = 10 + 5) and one row without
C10_Witness ==
    /\ df.status = "ok"
    /\ \E j \in DOMAIN df.rows :
          /\ SizeCell(df.rows[j], "total_changes") = Some(15)
          /\ SizeCell(df.rows[j], "additions") = Some(10)
    /\ \E j \in DOMAIN df.rows : IsNone(SizeCell(df.rows[j], "additions"))

\* the year and the month a "YYYY-MM" text spells
YearOfText(txt) ==
    (txt[1] - 48) * 1000 + (txt[2] - 48) * 100 + (txt[3] - 48) * 10 + (txt[4] - 48)
MonthOfText(txt) == (txt[6] - 48) * 10 + (txt[7] - 48)

\* the instant at which month m of year y begins in the zone of offset z
MonthStart(y, m, z) == Instant(Midnight(y, m, 1, z))

\* the instant at which the month after m of year y begins in that zone
MonthEnd(y, m, z) ==
    IF m = 12 THEN MonthStart(y + 1, 1, z) ELSE MonthStart(y, m + 1, z)

\* C11: in every row of a returned PR Table the month text and the year name
\* the calendar month, in the configured zone, that holds the creation
\* instant (the month begins at local midnight of its first day), and every
\* row with a time to merge is counted in the Monthly Table under that
\* creation month, whatever the month of its merged_at.
C11_MonthInZone ==
    /\ df.status = "ok" =>
          \A j \in DOMAIN df.rows :
              LET r == df.rows[j]
                  y == YearOfText(r.month)
                  m == MonthOfText(r.month)
                  t == CreatedInstant(Source(r))
              IN  /\ Len(r.month) = 7 /\ r.month[5] = 45
                  /\ m \in 1 .. 12
                  /\ MonthStart(y, m, tz) <= t /\ t < MonthEnd(y, m, tz)
                  /\ r.year = y
    /\ monthly_stats.status = "ok" =>
          \A j \in DOMAIN df.rows :
              ~IsNone(df.rows[j].time_to_merge_days) =>
                  \E i \in DOMAIN monthly_stats.rows :
                      /\ monthly_stats.rows[i].month = df.rows[j].month
                      /\ j \in MergedOf(monthly_stats.rows[i].month)

\* C11 witness: in zone UTC+9 the PR created at 2024-01-31T20:00Z has month
\* "2024-02", and a PR created in February and merged in March is counted
\* in the row of "2024-02"
C11_Witness ==
    /\ tz = 9 /\ monthly_stats.status = "ok"
    /\ \E j \in DOMAIN df.rows :
          /\ Source(df.rows[j]).createdAt = C3s
          /\ df.rows[j].month = << 50, 48, 50, 52, 45, 48, 50 >>
    /\ \E j \in DOMAIN df.rows :
          /\ ~IsNone(df.rows[j].merged_at)
          /\ ToDatetime(Get(df.rows[j].merged_at)).month = 3
          /\ df.rows[j].created_at.month = 2
          /\ \E i \in DOMAIN monthly_stats.rows :
                /\ monthly_stats.rows[i].month = << 50, 48, 50, 52, 45, 48, 50 >>
                /\ j \in MergedOf(monthly_stats.rows[i].month)

(***************************************************************************)
(* Properties of the commands                                              *)
(***************************************************************************)
\* the step named has run
Ran(step) == \E i \in DOMAIN log : log[i] = step

\* the step that ran last
LastStep == log[Len(log)]

\* the command ended on a ValueError raised while reading a date option
DateRejected ==
    /\ failure = "ValueError"
    /\ log # << >>
    /\ LastStep \in {"cutoff", "end"}

PipelineSteps ==
    {"subprocess", "write", "load", "process", "aggregate", "save", "visualize"}

\* C12: when run or analyze rejects a malformed --cutoff-date or --end-date,
\* nothing of the pipeline has run before the error: no acquisition
\* subprocess, no raw data file written or loaded, no normalization,
\* aggregation, persistence or rendering.
C12_DatesCheckedFirst ==
    DateRejected => \A step \in PipelineSteps : ~Ran(step)

AcquisitionOrder ==
    << "validate", "subprocess", "check", "parse", "filter", "write" >>

AcquisitionSteps == {AcquisitionOrder[i] : i \in DOMAIN AcquisitionOrder}

IsAcquisitionStep(step) == step \in AcquisitionSteps

\* the acquisition steps run so far, in the order they ran
AcquisitionLog == SelectSeq(log, IsAcquisitionStep)

\* the text has the form owner/name of the pattern: a non-empty owner of
\* letters, digits, "_" and "-", the first "/", and a non-empty name of
\* letters, digits, "_", "." and "-" that runs to the end of the text or to
\* a newline that ends it
MatchesPattern(text) ==
    /\ \E i \in DOMAIN text : text[i] = 47
    /\ LET k == CHOOSE i \in DOMAIN text :
                    text[i] = 47 /\ \A j \in 1 .. i - 1 : text[j] # 47
           n == IF text[Len(text)] = 10 THEN Len(text) - 1 ELSE Len(text)
       IN  /\ k > 1
           /\ n > k
           /\ \A j \in 1 .. k - 1 : text[j] \in OwnerChars
           /\ \A j \in k + 1 .. n : text[j] \in NameChars

\* the acquisition ended on a failure of one of its steps
AcquisitionFailed ==
    /\ failure # "none"
    /\ log # << >>
    /\ IsAcquisitionStep(LastStep)

C13_State ==
    \* the steps run in the fixed order, each at most once
    /\ Len(AcquisitionLog) <= Len(AcquisitionOrder)
    /\ AcquisitionLog = SubSeq(AcquisitionOrder, 1, Len(AcquisitionLog))
    \* an id the pattern does not match fails before any subprocess call
    /\ (Ran("validate") /\ ~MatchesPattern(repo)) =>
          /\ failure = "ValueError" /\ LastStep = "validate"
          /\ ~Ran("subprocess") /\ result = NoResult
    \* a timeout, a non-zero exit and a non-JSON output fail at their step
    /\ result.kind = "timeout" =>
          failure = "TimeoutExpired" /\ LastStep = "subprocess"
    /\ (Ran("check") /\ result.returncode # 0) =>
          failure = "RuntimeError" /\ LastStep = "check"
    /\ (Ran("parse") /\ result.stdout.fmt # "json") =>
          failure = "JSONDecodeError" /\ LastStep = "parse"
    \* after a failed acquisition the raw file has not been written and
    \* nothing of the analysis has run
    /\ AcquisitionFailed =>
          /\ ~Ran("write")
          /\ \A step \in {"load", "cutoff", "end", "process", "aggregate",
                          "save", "visualize"} : ~Ran(step)
          /\ df = NotRun /\ monthly_stats = NotRun
    \* a failure ends the command
    /\ failure # "none" <=> pc = "aborted"

C13_Step ==
    \* nothing runs after a failure
    /\ failure # "none" => vars' = vars
    \* the raw file changes only in the write step, after every earlier
    \* acquisition step has succeeded on a JSON output of exit code 0
    /\ raw_file' # raw_file =>
          /\ AcquisitionLog = SubSeq(AcquisitionOrder, 1, 5)
          /\ failure = "none"
          /\ result.kind = "completed" /\ result.returncode = 0
          /\ result.stdout.fmt = "json"
          /\ MatchesPattern(repo)

\* C13: the acquisition steps run in the order validate, subprocess, check
\* exit code, parse JSON, filter labels, write raw file, and a failure at any
\* step prevents every later step: an id the pattern does not match fails
\* before any subprocess call; a non-zero exit, a timeout or a non-JSON
\* output fails with the raw file neither written nor modified; in run no
\* normalization, aggregation, persistence or rendering follows a failed
\* acquisition.
C13_AcquisitionOrder == [](C13_State) /\ [][C13_Step]_vars

\* C13 witness: run with a well-formed id, gh exits non-zero: the command
\* ends at the exit-code check with the earlier raw file untouched
C13_Witness ==
    /\ command = "run"
    /\ log = << "mkdir", "validate", "subprocess", "check" >>
    /\ failure = "RuntimeError"
    /\ raw_file = StaleFile

\* the list gh printed
Fetched == result.stdout.value

\* the positions of the fetched records none of whose labels is excluded
KeptPositions ==
    {i \in DOMAIN Fetched :
        LabelNames(Fetched[i]) \cap ExcludeSet(exclude_labels) = {}}

\* C14: the records written to the raw file are exactly the fetched records
\* whose label names have an empty intersection with the exclude-set, in
\* their original order; a record with no labels is always kept, and with an
\* empty exclude-set every record is kept.
C14_LabelFilter ==
    Ran("write") =>
        LET written == Get(raw_file)
        IN  /\ Len(written) = Cardinality(KeptPositions)
            /\ \A j \in DOMAIN written :
                  /\ written[j].number \in KeptPositions
                  /\ written[j] = Fetched[written[j].number]
            /\ \A j, k \in DOMAIN written :
                  j < k => written[j].number < written[k].number
            /\ \A i \in DOMAIN Fetched :
                  LabelNames(Fetched[i]) = {} =>
                      \E j \in DOMAIN written : written[j] = Fetched[i]
            /\ exclude_labels = << >> => written = Fetched

\* C14 witness: fetch excluding "dependencies" has written a list of two
\* records of which the first carried that label (with "bug") and the second
\* carried no labels: only the second is in the file
C14_Witness ==
    /\ command = "fetch" /\ pc = "done"
    /\ exclude_labels = DefaultExclude
    /\ Len(Fetched) = 2
    /\ LabelNames(Fetched[1]) = {"bug", "dependencies"}
    /\ LabelNames(Fetched[2]) = {}
    /\ Len(Get(raw_file)) = 1
    /\ Get(raw_file)[1] = Fetched[2]
====
